---- MODULE Spec2Model ----
(***************************************************************************)
(* The CSV-to-DuckDB pipeline of src/main.py and src/lib.py.               *)
(*                                                                         *)
(* main() opens a session, calls create_table_from_csv (two CREATE TYPE    *)
(* ... AS ENUM statements that scan the CSV, one CREATE TABLE, one COPY    *)
(* ... FROM) and then collect_information (four COPY (SELECT ...) TO       *)
(* statements).  Every statement is one conn.execute call; there is no     *)
(* try/except anywhere, so an exception raised by a statement ends the     *)
(* run at that statement.  Each conn.execute runs in its own autocommit    *)
(* transaction of the engine.                                              *)
(*                                                                         *)
(* Of the 17 table columns the model keeps the seven that the statements   *)
(* of the program read by name: city, postal_code, model_year, make,       *)
(* model, electric_vehicle_type, cafv_eligibility.                         *)
(***************************************************************************)
EXTENDS Integers, Sequences, FiniteSets, TLC

VARIABLES
    source,     \* the CSV file: [readable, header, rows]
    types,      \* the session's enum types: name -> sequence of values
    table,      \* the session's table: [declared, rows]
    artifacts,  \* the files written below output_dir: name -> content
    pc,         \* index into Program of the statement main() is at
    error,      \* "none", or the exception that ended the run
    executed,   \* the statements handed to the engine so far, in order
    scanned,    \* enum name -> the CSV rows its CREATE TYPE scanned
    changed,    \* the CSV file was appended to during the run
    entry       \* the session's catalog when main() was entered

vars == <<source, types, table, artifacts, pc, error, executed, scanned,
          changed, entry>>

\* The longest CSV file (in data rows) the runs start from.
MaxRows == 5

(***************************************************************************)
(* Values                                                                  *)
(***************************************************************************)

\* SQL NULL.  The CSV reader turns an empty field into NULL.
NULL == "<NULL>"

ElectricVehicleTypeColumn == "Electric Vehicle Type"

CafvEligibilityColumn == "Clean Alternative Fuel Vehicle (CAFV) Eligibility"

\* The header names the two CREATE TYPE statements select by.
EnumColumns == {ElectricVehicleTypeColumn, CafvEligibilityColumn}

\* COPY ... FROM maps CSV columns onto table columns by position: the CSV
\* column under each of the two headers lands in this table column.
ColumnField ==
    (ElectricVehicleTypeColumn :> "electric_vehicle_type")
        @@ (CafvEligibilityColumn :> "cafv_eligibility")

\* The columns of CREATE TABLE that are declared NOT NULL (of those kept).
NotNullColumns ==
    {"city", "postal_code", "model_year", "make",
     "electric_vehicle_type", "cafv_eligibility"}

\* The enum type each enum-typed table column is declared with.
EnumTypeOf ==
    ("electric_vehicle_type" :> "ElectricVehicleType")
        @@ ("cafv_eligibility" :> "CAFVEligibility")

EnumNames == {"ElectricVehicleType", "CAFVEligibility"}

\* Texts the engine casts to INTEGER, with the value of each.
IntegerValue == ("2019" :> 2019) @@ ("2020" :> 2020) @@ ("2021" :> 2021)

\* LIMIT 3 of the three-most-popular query.
Limit == 3

(***************************************************************************)
(* CSV files the runs start from                                           *)
(***************************************************************************)

BaseRow ==
    [city |-> "Seattle", postal_code |-> "98101", model_year |-> "2020",
     make |-> "Tesla", model |-> "Model3",
     electric_vehicle_type |-> "BEV", cafv_eligibility |-> "Eligible"]

\* Rows that differ in what the bulk load checks.
LoadRows ==
    {[BaseRow EXCEPT !.electric_vehicle_type = e] : e \in {"BEV", "PHEV", ""}}
        \cup {[BaseRow EXCEPT !.model_year = "20x0"]}

\* Rows that differ in (make, model); one has no model.
ModelRows ==
    {BaseRow,
     [BaseRow EXCEPT !.model = "ModelY"],
     [BaseRow EXCEPT !.make = "Nissan", !.model = "Leaf", !.model_year = "2019"],
     [BaseRow EXCEPT !.make = "Nissan", !.model = ""]}

\* Rows that differ in postal code and (make, model).
PostalRows ==
    {BaseRow,
     [BaseRow EXCEPT !.make = "Nissan", !.model = "Leaf", !.model_year = "2019"],
     [BaseRow EXCEPT !.city = "Bellevue", !.postal_code = "98004"],
     [BaseRow EXCEPT !.city = "Bellevue", !.postal_code = "98004",
                     !.make = "Nissan", !.model = "Leaf"]}

\* Rows that differ in model year.
YearRows == {[BaseRow EXCEPT !.model_year = y] : y \in {"2019", "2020", "2021"}}

RowFamilies == {LoadRows, ModelRows, PostalRows, YearRows}

SeqsUpTo(S, n) == UNION {[1..k -> S] : k \in 0..n}

\* The data rows of the CSV files.
SourceRows == UNION {SeqsUpTo(F, MaxRows) : F \in RowFamilies}

\* Rows another writer appends to the CSV file while the run is under way.
AppendedRows ==
    {[BaseRow EXCEPT !.electric_vehicle_type = "PHEV"],
     [BaseRow EXCEPT !.cafv_eligibility = "Unknown"]}

(***************************************************************************)
(* main(): the statements in program order                                 *)
(***************************************************************************)

ProgramSkipsCopy ==
    <<"initialize_connection", "create_electric_vehicle_enum",
      "create_cafv_eligibility_enum", "create_table",
      "makedirs", "vehicles_per_city", "three_most_popular_vehicles",
      "most_popular_vehicle_per_postal_code", "per_year", "close">>

Program ==
    <<"initialize_connection", "create_electric_vehicle_enum",
      "create_cafv_eligibility_enum", "create_table", "copy_table",
      "makedirs", "vehicles_per_city", "three_most_popular_vehicles",
      "most_popular_vehicle_per_postal_code", "per_year", "close">>

Jobs ==
    {"vehicles_per_city", "three_most_popular_vehicles",
     "most_popular_vehicle_per_postal_code", "per_year"}

Running == error = "none" /\ pc \in DOMAIN Program

At(stmt) == Running /\ Program[pc] = stmt

Finished == error = "none" /\ pc = Len(Program) + 1

\* The statement an exception came out of.
FailedAt == IF error = "none" THEN "none" ELSE Program[pc]

\* What every step does to the control state: the statement is handed to
\* the engine; it returns and main() moves on, or it raises and the run ends.
Step(stmt, err) ==
    /\ executed' = Append(executed, stmt)
    /\ error' = err
    /\ pc' = IF err = "none" THEN pc + 1 ELSE pc

Range(s) == {s[i] : i \in DOMAIN s}

(***************************************************************************)
(* create_enum_from_column and CREATE TYPE ... AS ENUM                     *)
(***************************************************************************)

\* col_name.replace(" ", "").replace("(", "").replace(")", "")
StripSpacesAndParens ==
    (ElectricVehicleTypeColumn :> "ElectricVehicleType")
        @@ (CafvEligibilityColumn :> "CleanAlternativeFuelVehicleCAFVEligibility")

\* The statement create_enum_from_column builds.
create_enum_from_column(col_name, enum_name) ==
    [name |-> IF enum_name = "" THEN StripSpacesAndParens[col_name] ELSE enum_name,
     column |-> col_name]

\* read_csv: a CSV field as the value the query sees.
ReadField(text) == IF text = "" THEN NULL ELSE text

\* FROM read_csv(...) SELECT "col": the column, row by row.
SelectColumn(rows, col) == [i \in DOMAIN rows |-> ReadField(rows[i][ColumnField[col]])]

RECURSIVE Filter(_, _)
Filter(s, drop) ==
    IF s = <<>> THEN <<>>
    ELSE IF Head(s) = drop THEN Filter(Tail(s), drop)
    ELSE <<Head(s)>> \o Filter(Tail(s), drop)

\* WHERE "col" IS NOT NULL
WhereNotNull(s) == Filter(s, NULL)

RECURSIVE Distinct(_)
\* SELECT DISTINCT, in order of first occurrence (the engine fixes no
\* order; nothing below reads the order).
Distinct(s) ==
    IF s = <<>> THEN <<>>
    ELSE <<Head(s)>> \o Distinct(Filter(Tail(s), Head(s)))

EnumValuesKeepsNull(rows, col) == Distinct(SelectColumn(rows, col))

\* The values the statement's subquery yields.
EnumValues(rows, col) == Distinct(WhereNotNull(SelectColumn(rows, col)))

ExecuteCreateTypeIfNotExists(stmt, src, tys) ==
    IF ~src.readable \/ stmt.column \notin src.header
    THEN [error |-> "SourceReadError", types |-> tys]
    ELSE IF stmt.name \in DOMAIN tys
    THEN [error |-> "none", types |-> tys]
    ELSE [error |-> "none",
          types |-> tys @@ (stmt.name :> EnumValues(src.rows, stmt.column))]

\* The engine on CREATE TYPE name AS ENUM (subquery): the subquery is bound
\* (the file opened, the column resolved) before the catalog is written.
ExecuteCreateType(stmt, src, tys) ==
    IF ~src.readable \/ stmt.column \notin src.header
    THEN [error |-> "SourceReadError", types |-> tys]
    ELSE IF stmt.name \in DOMAIN tys
    THEN [error |-> "SchemaConflictError", types |-> tys]
    ELSE [error |-> "none",
          types |-> tys @@ (stmt.name :> EnumValues(src.rows, stmt.column))]

(***************************************************************************)
(* CREATE TABLE and COPY ... FROM                                          *)
(***************************************************************************)

\* The engine on CREATE TABLE: the column types are resolved, then the
\* catalog is written.
ExecuteCreateTable(tys, tbl) ==
    IF ~(EnumNames \subseteq DOMAIN tys)
    THEN [error |-> "CatalogError", table |-> tbl]
    ELSE IF tbl.declared
    THEN [error |-> "SchemaConflictError", table |-> tbl]
    ELSE [error |-> "none", table |-> [declared |-> TRUE, rows |-> <<>>]]

\* Whether CAST(text AS INTEGER) of a CSV field goes through.
CastsToInteger(text) == text \in DOMAIN IntegerValue

\* CAST(text AS INTEGER) of a CSV field that casts.
CastInteger(text) == IF text = "" THEN NULL ELSE IntegerValue[text]

\* Why the engine rejects a CSV row, or "none": the casts to the column
\* types come first, the NOT NULL constraints when the row is appended.
RowError(r, tys) ==
    IF r.model_year # "" /\ ~CastsToInteger(r.model_year) THEN "TypeCoercionError"
    ELSE IF \E c \in DOMAIN EnumTypeOf :
                /\ ReadField(r[c]) # NULL
                /\ ReadField(r[c]) \notin Range(tys[EnumTypeOf[c]])
    THEN "EnumDomainError"
    ELSE IF \E c \in NotNullColumns : ReadField(r[c]) = NULL
    THEN "NotNullError"
    ELSE "none"

\* A CSV row as the table row it becomes.
ParseRow(r) ==
    [city |-> ReadField(r.city),
     postal_code |-> ReadField(r.postal_code),
     model_year |-> CastInteger(r.model_year),
     make |-> ReadField(r.make),
     model |-> ReadField(r.model),
     electric_vehicle_type |-> ReadField(r.electric_vehicle_type),
     cafv_eligibility |-> ReadField(r.cafv_eligibility)]

RECURSIVE AppendRows(_, _, _)
\* The copy appends row after row inside the statement's transaction and
\* stops at the first row the engine rejects.
AppendRows(buffer, lines, tys) ==
    IF lines = <<>> THEN [error |-> "none", rows |-> buffer]
    ELSE IF RowError(Head(lines), tys) # "none"
    THEN [error |-> RowError(Head(lines), tys), rows |-> buffer]
    ELSE AppendRows(Append(buffer, ParseRow(Head(lines))), Tail(lines), tys)

BulkCopyNoRollback(existing, lines, tys) == AppendRows(existing, lines, tys)

BulkCopyDropsFirstRow(existing, lines, tys) ==
    LET rest == IF lines = <<>> THEN lines ELSE Tail(lines)
        r == AppendRows(existing, rest, tys)
    IN  IF r.error # "none" THEN [error |-> r.error, rows |-> existing] ELSE r

\* COPY table FROM file WITH (HEADER 1): the header line is skipped, every
\* other line is a row; the statement's transaction commits all its rows
\* or is rolled back.
BulkCopy(existing, lines, tys) ==
    LET r == AppendRows(existing, lines, tys)
    IN  IF r.error # "none" THEN [error |-> r.error, rows |-> existing] ELSE r

\* The engine on COPY table FROM file.
ExecuteCopyFrom(src, tys, tbl) ==
    IF ~tbl.declared THEN [error |-> "CatalogError", table |-> tbl]
    ELSE IF ~src.readable \/ src.header # EnumColumns
    THEN [error |-> "SourceReadError", table |-> tbl]
    ELSE LET r == BulkCopy(tbl.rows, src.rows, tys)
         IN  [error |-> r.error, table |-> [tbl EXCEPT !.rows = r.rows]]

(***************************************************************************)
(* The queries of collect_information                                      *)
(***************************************************************************)

Project(r, cols) == [c \in cols |-> r[c]]

\* SELECT keys, COUNT(*) AS countName FROM table GROUP BY keys
GroupCount(rows, keys, countName) ==
    {k @@ (countName :> Cardinality({i \in DOMAIN rows : Project(rows[i], keys) = k}))
        : k \in {Project(rows[i], keys) : i \in DOMAIN rows}}

Orderings(S) ==
    {s \in [1..Cardinality(S) -> S] : \A x \in S : \E i \in DOMAIN s : s[i] = x}

\* ORDER BY col [ASC | DESC]: every order of the rows the engine may
\* produce (rows equal in col come in any order).
OrderBy(S, col, direction) ==
    {s \in Orderings(S) :
        \A i, j \in DOMAIN s :
            i < j => IF direction = "DESC" THEN s[i][col] >= s[j][col]
                                           ELSE s[i][col] <= s[j][col]}

\* LIMIT n
LimitRows(s, n) == SubSeq(s, 1, IF Len(s) < n THEN Len(s) ELSE n)

\* GROUP BY city: the rows of vehicles_per_city.parquet (no ORDER BY).
VehiclesPerCity(rows) == {GroupCount(rows, {"city"}, "electric_vehicle_amount")}

ThreeMostPopularAscending(rows) ==
    {LimitRows(s, Limit) :
        s \in OrderBy(GroupCount(rows, {"make", "model"}, "vehicle_amount"),
                      "vehicle_amount", "ASC")}

\* GROUP BY make, model ORDER BY vehicle_amount DESC LIMIT 3: every content
\* three_most_popular_vehicles.parquet may get.
ThreeMostPopularVehicles(rows) ==
    {LimitRows(s, Limit) :
        s \in OrderBy(GroupCount(rows, {"make", "model"}, "vehicle_amount"),
                      "vehicle_amount", "DESC")}

\* The ranked subquery and the outer query over it, direction being that of
\* the window's ORDER BY.
TopPerPostalCode(rows, direction) ==
    LET groups == GroupCount(rows, {"postal_code", "make", "model"}, "vehicle_count")
        codes == {g.postal_code : g \in groups}
        Partition(p) == {g \in groups : g.postal_code = p}
        \* ROW_NUMBER() OVER (PARTITION BY postal_code ORDER BY COUNT(*) ...)
        numberings ==
            {f \in [codes -> UNION {OrderBy(Partition(p), "vehicle_count", direction) :
                                        p \in codes}] :
                \A p \in codes : f[p] \in OrderBy(Partition(p), "vehicle_count", direction)}
        Ranked(f) ==
            UNION {{f[p][i] @@ ("row_num" :> i) : i \in DOMAIN f[p]} : p \in codes}
        \* SELECT postal_code, make, model, vehicle_count ... WHERE row_num = 1
        Selected(f) ==
            {Project(r, {"postal_code", "make", "model", "vehicle_count"}) :
                r \in {x \in Ranked(f) : x.row_num = 1}}
    IN  UNION {OrderBy(Selected(f), "vehicle_count", "DESC") : f \in numberings}

MostPopularPerPostalCodeAscending(rows) == TopPerPostalCode(rows, "ASC")

\* Every content most_popular_vehicle_per_postal_code.parquet may get.
MostPopularVehiclePerPostalCode(rows) == TopPerPostalCode(rows, "DESC")

\* PARTITION_BY (col): one directory col=<value> per value of col among the
\* rows written, holding the rows with that value.
PartitionBy(result, col) ==
    [v \in {r[col] : r \in result} |-> {r \in result : r[col] = v}]

VehiclesPerModelYearAndMake(rows) ==
    {PartitionBy(GroupCount(rows, {"model_year", "make"}, "vehicle_amount"), "model_year")}

\* GROUP BY model_year, written PARTITION_BY (model_year): the directories
\* below per_year.
VehiclesPerModelYear(rows) ==
    {PartitionBy(GroupCount(rows, {"model_year"}, "vehicle_amount"), "model_year")}

\* The engine on COPY (query) TO file: the query runs, then the file is
\* written; diskOk is whether the write goes through.
ExecuteCopyTo(tbl, files, name, content, diskOk) ==
    IF ~tbl.declared THEN [error |-> "QueryExecutionError", files |-> files]
    ELSE IF ~diskOk THEN [error |-> "ExportWriteError", files |-> files]
    ELSE [error |-> "none", files |-> (name :> content) @@ files]

(***************************************************************************)
(* Initial states                                                          *)
(***************************************************************************)

NoCatalog == [types |-> {}, declared |-> FALSE, rows |-> <<>>]

\* main() on the fresh in-memory session initialize_connection() opens.
Init ==
    /\ source \in [readable : BOOLEAN, header : SUBSET EnumColumns, rows : SourceRows]
    /\ types = <<>>
    /\ table = [declared |-> FALSE, rows |-> <<>>]
    /\ artifacts = <<>>
    /\ pc = 1
    /\ error = "none"
    /\ executed = <<>>
    /\ scanned = <<>>
    /\ changed = FALSE
    /\ entry = NoCatalog

\* The enum types an earlier load of the file declared.
TypesOf(rows) ==
    [n \in EnumNames |->
        EnumValues(rows, CHOOSE c \in EnumColumns : EnumTypeOf[ColumnField[c]] = n)]

\* The same run on a session that was used before (initialize_connection
\* on a database that holds objects of an earlier run, or a caller that
\* hands its session to create_table_from_csv again): any of the two types
\* and the table may exist, the table empty or loaded from the file.
InitReuse ==
    /\ source \in [readable : BOOLEAN, header : SUBSET EnumColumns,
                   rows : SeqsUpTo(LoadRows, MaxRows)]
    /\ \E names \in SUBSET EnumNames :
          /\ types = [n \in names |-> TypesOf(source.rows)[n]]
          /\ scanned = [n \in names |-> source.rows]
    /\ \E declared \in BOOLEAN, loaded \in BOOLEAN :
          table = [declared |-> declared,
                   rows |-> IF declared /\ loaded
                            THEN BulkCopy(<<>>, source.rows, TypesOf(source.rows)).rows
                            ELSE <<>>]
    /\ artifacts = <<>>
    /\ pc = 1
    /\ error = "none"
    /\ executed = <<>>
    /\ changed = FALSE
    /\ entry = [types |-> DOMAIN types, declared |-> table.declared, rows |-> table.rows]

(***************************************************************************)
(* The steps of main()                                                     *)
(***************************************************************************)

\* initialize_connection: connect, install and load the spatial extension.
InitializeConnection ==
    /\ At("initialize_connection")
    /\ \E ok \in BOOLEAN :
          Step("initialize_connection", IF ok THEN "none" ELSE "ConnectionError")
    /\ UNCHANGED <<source, types, table, artifacts, scanned, changed, entry>>

CreateEnum(stmt, enum) ==
    /\ At(stmt)
    /\ LET r == ExecuteCreateType(enum, source, types)
       IN  /\ types' = r.types
           /\ scanned' = IF r.error = "none"
                         THEN scanned @@ (enum.name :> source.rows)
                         ELSE scanned
           /\ Step(stmt, r.error)
    /\ UNCHANGED <<source, table, artifacts, changed, entry>>

\* conn.execute(create_electric_vehicle_enum_command)
CreateElectricVehicleEnum ==
    CreateEnum("create_electric_vehicle_enum",
               create_enum_from_column(ElectricVehicleTypeColumn, ""))

\* conn.execute(create_cafv_eligibility_enum_command)
CreateCafvEligibilityEnum ==
    CreateEnum("create_cafv_eligibility_enum",
               create_enum_from_column(CafvEligibilityColumn, "CAFVEligibility"))

\* conn.execute(create_table_command)
CreateTable ==
    /\ At("create_table")
    /\ LET r == ExecuteCreateTable(types, table)
       IN  table' = r.table /\ Step("create_table", r.error)
    /\ UNCHANGED <<source, types, artifacts, scanned, changed, entry>>

\* conn.execute(copy_table_command)
CopyTable ==
    /\ At("copy_table")
    /\ LET r == ExecuteCopyFrom(source, types, table)
       IN  table' = r.table /\ Step("copy_table", r.error)
    /\ UNCHANGED <<source, types, artifacts, scanned, changed, entry>>

\* os.makedirs(output_dir, exist_ok=True)
MakeDirs ==
    /\ At("makedirs")
    /\ \E ok \in BOOLEAN : Step("makedirs", IF ok THEN "none" ELSE "OSError")
    /\ UNCHANGED <<source, types, table, artifacts, scanned, changed, entry>>

\* One COPY (query) TO file of collect_information.
Job(stmt, name, contents) ==
    /\ At(stmt)
    /\ \E content \in contents, diskOk \in BOOLEAN :
          LET r == ExecuteCopyTo(table, artifacts, name, content, diskOk)
          IN  artifacts' = r.files /\ Step(stmt, r.error)
    /\ UNCHANGED <<source, types, table, scanned, changed, entry>>

JobVehiclesPerCity ==
    Job("vehicles_per_city", "vehicles_per_city.parquet",
        VehiclesPerCity(table.rows))

JobThreeMostPopularVehicles ==
    Job("three_most_popular_vehicles", "three_most_popular_vehicles.parquet",
        ThreeMostPopularVehicles(table.rows))

JobMostPopularVehiclePerPostalCode ==
    Job("most_popular_vehicle_per_postal_code",
        "most_popular_vehicle_per_postal_code.parquet",
        MostPopularVehiclePerPostalCode(table.rows))

JobVehiclesPerModelYear ==
    Job("per_year", "per_year", VehiclesPerModelYear(table.rows))

\* conn.close()
CloseConnection ==
    /\ At("close")
    /\ Step("close", "none")
    /\ UNCHANGED <<source, types, table, artifacts, scanned, changed, entry>>

\* Environment: another writer appends a row to the CSV file between the
\* first scan of create_table_from_csv and its bulk load (once per run):
\* before the second scan, or after it.  CREATE TABLE does not read the
\* file, so an append before it is the append before the copy.
SourceAppend ==
    /\ Running
    /\ pc > 1
    /\ Program[pc - 1] \in {"create_electric_vehicle_enum", "create_table"}
    /\ ~changed
    /\ \E r \in AppendedRows : source' = [source EXCEPT !.rows = Append(@, r)]
    /\ changed' = TRUE
    /\ UNCHANGED <<types, table, artifacts, pc, error, executed, scanned, entry>>

Next ==
    \/ InitializeConnection
    \/ CreateElectricVehicleEnum
    \/ CreateCafvEligibilityEnum
    \/ CreateTable
    \/ CopyTable
    \/ MakeDirs
    \/ JobVehiclesPerCity
    \/ JobThreeMostPopularVehicles
    \/ JobMostPopularVehiclePerPostalCode
    \/ JobVehiclesPerModelYear
    \/ CloseConnection
    \/ SourceAppend

Spec == Init /\ [][Next]_vars

SpecReuse == InitReuse /\ [][Next]_vars

(***************************************************************************)
(* Properties                                                              *)
(***************************************************************************)

\* The engine ran the statement and it returned: a statement that raises
\* is the last one executed.
Succeeded(stmt) ==
    \E i \in DOMAIN executed :
        executed[i] = stmt /\ (error = "none" \/ i < Len(executed))

LoadStatements ==
    {"create_electric_vehicle_enum", "create_cafv_eligibility_enum",
     "create_table", "copy_table"}

\* The number of table rows that agree with row r on the columns cols.
CountLike(rows, r, cols) ==
    Cardinality({i \in DOMAIN rows : Project(rows[i], cols) = Project(r, cols)})

NoDuplicates(s) == \A i, j \in DOMAIN s : s[i] = s[j] => i = j

RECURSIVE SumOf(_, _)
SumOf(S, col) ==
    IF S = {} THEN 0
    ELSE LET x == CHOOSE x \in S : TRUE IN x[col] + SumOf(S \ {x}, col)

\* C1 (as claimed): when one of the four jobs of collect_information fails,
\* the other jobs are still attempted: a run that ended in a job's failure
\* has handed all four jobs to the engine.
C1_FailedJobLeavesOthersAttempted ==
    FailedAt \in Jobs => Jobs \subseteq Range(executed)

\* C2: the session moves Empty, TypesDeclared, TableDeclared, Loaded in that
\* order: the table is declared only once both enum types are, rows are
\* loaded only into the declared table, the statements return in program
\* order, and a job is handed to the engine only after the bulk copy has
\* returned successfully.
C2_LoadStepsInOrderBeforeAnyJob ==
    [][ /\ (~table.declared /\ table'.declared) => EnumNames \subseteq DOMAIN types
        /\ (table'.rows # table.rows) => (table.declared /\ table'.declared)
        /\ (\E n \in EnumNames : n \in DOMAIN types' /\ n \notin DOMAIN types)
              => ~table.declared
        /\ (Len(executed') > Len(executed) /\ executed'[Len(executed')] \in Jobs)
              => /\ Succeeded("copy_table")
                 /\ table.declared
                 /\ EnumNames \subseteq DOMAIN types
        /\ (Succeeded("copy_table")' /\ ~Succeeded("copy_table"))
              => (Succeeded("create_table") /\ ~(\E j \in Jobs : j \in Range(executed)))
        /\ (Succeeded("create_table")' /\ ~Succeeded("create_table"))
              => (/\ Succeeded("create_electric_vehicle_enum")
                  /\ Succeeded("create_cafv_eligibility_enum")
                  /\ ~Succeeded("copy_table"))
      ]_vars

\* C2 witness: a run that went through all four stages and all four jobs.
C2_Witness ==
    /\ Finished
    /\ Jobs \subseteq Range(executed)
    /\ Len(table.rows) >= 2

\* C3: when the bulk load fails on a row, no row of the source is retained:
\* the table holds zero rows.
C3_FailedLoadKeepsNoRow ==
    FailedAt = "copy_table" => table.rows = <<>>

\* C3 witness: the load failed on a later row, an enum value outside its
\* dictionary, after a row that passes every check.
C3_Witness ==
    /\ FailedAt = "copy_table"
    /\ error = "EnumDomainError"
    /\ Len(source.rows) >= 2
    /\ RowError(source.rows[1], types) = "none"

\* C4 (as claimed): when the source cannot be read or an enum-backing
\* column is absent from its header, create_table_from_csv fails before any
\* DDL was issued: the session holds neither enum type nor the table.
C4_SourceReadErrorBeforeAnyDDL ==
    (error = "SourceReadError" /\ FailedAt \in LoadStatements)
        => (DOMAIN types = {} /\ ~table.declared)

\* A source both CREATE TYPE statements can scan.
SourceScannable == source.readable /\ source.header = EnumColumns

\* The session already held one of the two enum types or the table.
Conflict == entry.types # {} \/ entry.declared

\* C5 (as claimed): on a session that already holds ElectricVehicleType,
\* CAFVEligibility or the table, create_table_from_csv fails with a
\* schema-conflict error.
C5_ExistingNameFailsWithSchemaConflict ==
    (Conflict /\ FailedAt \in LoadStatements) => error = "SchemaConflictError"

\* C5 (amended): on a session that already holds ElectricVehicleType,
\* CAFVEligibility or the table, create_table_from_csv fails: it never
\* declares the table anew, never reaches the bulk copy, never returns, and
\* leaves the rows of an existing table as they were.  The failure is the
\* schema conflict whenever the source is readable and has both enum
\* columns; otherwise it is the schema conflict or the source read error,
\* and a source read error only comes from such a source.
C5_ExistingNameFailsWithoutReload ==
    Conflict =>
        /\ "copy_table" \notin Range(executed)
        /\ ~Succeeded("create_table")
        /\ table.rows = entry.rows
        /\ FailedAt \in LoadStatements =>
              /\ error \in {"SchemaConflictError", "SourceReadError"}
              /\ SourceScannable => error = "SchemaConflictError"
              /\ error = "SourceReadError" => ~SourceScannable

\* C5 witness: the second load of the same source on a session that holds
\* both types and the loaded table failed with the schema conflict.
C5_Witness ==
    /\ entry.types = EnumNames
    /\ entry.declared
    /\ Len(entry.rows) >= 2
    /\ error = "SchemaConflictError"
    /\ FailedAt = "create_electric_vehicle_enum"

\* C6: after create_table_from_csv returned, the table holds one row per
\* data row of the source, in the source's order, none dropped or doubled.
C6_LoadPreservesRowCount ==
    Succeeded("copy_table") =>
        /\ Len(table.rows) = Len(source.rows)
        /\ \A i \in DOMAIN source.rows : table.rows[i] = ParseRow(source.rows[i])

\* C6 witness: a load of a file of at least three rows returned.
C6_Witness ==
    /\ Succeeded("copy_table")
    /\ Len(source.rows) >= 3
    /\ \E i, j \in DOMAIN source.rows : source.rows[i] # source.rows[j]

\* C7: the values of each declared enum type are exactly the distinct
\* non-null values of its column in the source it scanned, each once, no
\* NULL among them; and unless the source changed between the scan and the
\* load, no load fails on an enum value outside its dictionary, and every
\* loaded row's enum values are in their dictionaries.
C7_EnumIsDistinctNonNullValues ==
    /\ \A c \in EnumColumns :
          LET n == EnumTypeOf[ColumnField[c]]
          IN  n \in DOMAIN types =>
                /\ NoDuplicates(types[n])
                /\ NULL \notin Range(types[n])
                /\ "" \notin Range(types[n])
                /\ Range(types[n]) =
                      {v \in {scanned[n][i][ColumnField[c]] : i \in DOMAIN scanned[n]} :
                          v # ""}
    /\ error = "EnumDomainError" => changed
    /\ Succeeded("copy_table") =>
          \A i \in DOMAIN table.rows : \A f \in DOMAIN EnumTypeOf :
              table.rows[i][f] \in Range(types[EnumTypeOf[f]])

\* C7 witness: an enum declared from a column that holds a value twice, a
\* second value and an empty field.
C7_Witness ==
    /\ "ElectricVehicleType" \in DOMAIN types
    /\ Len(types["ElectricVehicleType"]) = 2
    /\ \E i, j, k \in DOMAIN scanned["ElectricVehicleType"] :
          LET col == [x \in DOMAIN scanned["ElectricVehicleType"] |->
                        scanned["ElectricVehicleType"][x].electric_vehicle_type]
          IN  i # j /\ col[i] = col[j] /\ col[i] # "" /\ col[k] = ""

PostalFile == "most_popular_vehicle_per_postal_code.parquet"

\* C8: the top-model-per-postal-code artifact holds exactly one row per
\* postal code of the table and none for any other; the row's count is the
\* number of table rows of its (postal_code, make, model), and no (make,
\* model) of that postal code has more rows.
C8_OneTopModelPerPostalCode ==
    PostalFile \in DOMAIN artifacts =>
        LET out == artifacts[PostalFile]
            keys == {"postal_code", "make", "model"}
        IN  /\ {out[i].postal_code : i \in DOMAIN out}
                  = {table.rows[k].postal_code : k \in DOMAIN table.rows}
            /\ \A i, j \in DOMAIN out : out[i].postal_code = out[j].postal_code => i = j
            /\ \A i \in DOMAIN out :
                  /\ out[i].vehicle_count = CountLike(table.rows, out[i], keys)
                  /\ out[i].vehicle_count >= 1
                  /\ \A k \in DOMAIN table.rows :
                        table.rows[k].postal_code = out[i].postal_code
                            => CountLike(table.rows, table.rows[k], keys)
                                  <= out[i].vehicle_count

\* C8 witness: two postal codes, one of them with two (make, model) groups
\* of different size.
C8_Witness ==
    /\ PostalFile \in DOMAIN artifacts
    /\ Len(artifacts[PostalFile]) = 2
    /\ \E i, j \in DOMAIN table.rows :
          /\ table.rows[i].postal_code = table.rows[j].postal_code
          /\ CountLike(table.rows, table.rows[i], {"postal_code", "make", "model"})
                < CountLike(table.rows, table.rows[j], {"postal_code", "make", "model"})

TopFile == "three_most_popular_vehicles.parquet"

\* C9: the top-3 artifact holds min(3, number of (make, model) groups)
\* rows, each a different group of the table with its row count, the counts
\* non-increasing, and no group left out has more rows than a group in it.
C9_TopThreeModels ==
    TopFile \in DOMAIN artifacts =>
        LET out == artifacts[TopFile]
            keys == {"make", "model"}
            groups == {Project(table.rows[k], keys) : k \in DOMAIN table.rows}
        IN  /\ Len(out) = IF Cardinality(groups) < 3 THEN Cardinality(groups) ELSE 3
            /\ \A i, j \in DOMAIN out : Project(out[i], keys) = Project(out[j], keys) => i = j
            /\ \A i \in DOMAIN out :
                  /\ out[i].vehicle_amount = CountLike(table.rows, out[i], keys)
                  /\ out[i].vehicle_amount >= 1
            /\ \A i, j \in DOMAIN out : i < j => out[i].vehicle_amount >= out[j].vehicle_amount
            /\ \A k \in DOMAIN table.rows :
                  (\A i \in DOMAIN out : Project(out[i], keys) # Project(table.rows[k], keys))
                      => \A i \in DOMAIN out :
                            CountLike(table.rows, table.rows[k], keys) <= out[i].vehicle_amount

\* C9 witness: four (make, model) groups of different sizes, three of them
\* in the artifact and one left out.
C9_Witness ==
    /\ TopFile \in DOMAIN artifacts
    /\ Len(artifacts[TopFile]) = 3
    /\ Cardinality({Project(table.rows[k], {"make", "model"}) : k \in DOMAIN table.rows}) = 4
    /\ artifacts[TopFile][1].vehicle_amount > artifacts[TopFile][3].vehicle_amount

\* C10: the per-year artifact holds exactly one partition per model_year of
\* the table, each with a single row whose count is the number of table
\* rows of that year; the counts sum to the table's row count.
C10_OnePartitionPerModelYear ==
    "per_year" \in DOMAIN artifacts =>
        LET parts == artifacts["per_year"]
        IN  /\ DOMAIN parts = {table.rows[k].model_year : k \in DOMAIN table.rows}
            /\ \A y \in DOMAIN parts :
                  /\ Cardinality(parts[y]) = 1
                  /\ \A r \in parts[y] :
                        /\ r.model_year = y
                        /\ r.vehicle_amount =
                              Cardinality({k \in DOMAIN table.rows : table.rows[k].model_year = y})
            /\ SumOf(UNION {parts[y] : y \in DOMAIN parts}, "vehicle_amount")
                  = Len(table.rows)

\* C10 witness: several model years, one of them on more than one row.
C10_Witness ==
    /\ "per_year" \in DOMAIN artifacts
    /\ Cardinality(DOMAIN artifacts["per_year"]) >= 2
    /\ \E y \in DOMAIN artifacts["per_year"] :
          \E r \in artifacts["per_year"][y] : r.vehicle_amount >= 2

====
